---- MODULE Spec2Model ----
(***************************************************************************)
(* Model of the JEE question-bank quiz application (src/src/App.tsx):     *)
(* the quiz session of the App component (subject choice, sampling,       *)
(* answering, navigation, scoring, results, review, export) and the       *)
(* question-markup rendering functions (renderMath, Table,                *)
(* renderMathInline).                                                      *)
(*                                                                         *)
(* JavaScript strings are modelled as sequences of one-character strings, *)
(* so that join, split, includes and comparison are computed character by *)
(* character.  Array indexes of the program are 0-based; TLA+ sequences   *)
(* are 1-based, so questions[i] of the program is questions[i + 1] here.  *)
(***************************************************************************)
EXTENDS Integers, Sequences, FiniteSets, TLC

(***************************************************************************)
(* Bounds of the model.                                                    *)
(***************************************************************************)
\* The clock (Date.now()) runs from 1 to MaxTime.
MaxTime == 2
\* Subjects with at most MaxPermLen questions are shuffled into every
\* permutation.
MaxPermLen == 3
\* A longer subject is shuffled into its rotations by 0..MaxRotate places and
\* their reversals.
MaxRotate == 1

\* A question text is a concatenation of at most MaxPieces vocabulary pieces.
MaxPieces == 3

\* The largest number of vocabulary pieces in a tabular content.
MaxTablePieces == 5

\* The largest number of vocabulary pieces in a text with inline math.
MaxMathPieces == 5

(***************************************************************************)
(* Program constants.                                                      *)
(***************************************************************************)
\* .slice(0, 20)
SampleSize == 20

\* useState<string | null>(null)
NULL == "null"
\* a missing array element or object property
Undefined == <<"undefined">>
\* JavaScript numbers as far as the index input needs them: an integer or NaN.
Num(n) == [isNaN |-> FALSE, n |-> n]
NaN == [isNaN |-> TRUE, n |-> 0]

\* The subjects offered by SubjectSelection.
Subjects == {"math", "phy", "chem"}
\* The option buttons of a choice question.
Options == <<"A", "B", "C", "D">>
\* Values an <input type="number"> can hand to handleAnswer: "", "5", "12".
NumInputs == {<<>>, <<"5">>, <<"1", "2">>}

Q(id, type, subject, gold) ==
  [id |-> id, type |-> type, subject |-> subject, gold |-> gold]

\* A question bank (quizData.questions) with every kind of question, a
\* multiple-choice answer whose letters are not in alphabetical order and an
\* integer answer of more than one character.
SmallBank ==
  << Q(1, "MCQ", "math", <<"A">>),
     Q(2, "MCQ(multiple)", "phy", <<"A", "C">>),
     Q(3, "Numeric", "math", <<"5">>),
     Q(4, "Integer", "math", <<"1", "2">>),
     Q(5, "MCQ(multiple)", "phy", <<"C", "A">>),
     Q(6, "MCQ", "chem", <<"B">>),
     Q(7, "MCQ(multiple)", "chem", <<"B">>) >>

\* A bank whose subject "math" has one question more than a session holds.
\* A bank of four questions, for the sessions in which exports are followed
\* to their end.
TinyBank ==
  << Q(1, "MCQ", "math", <<"A">>),
     Q(2, "Numeric", "math", <<"5">>),
     Q(3, "MCQ(multiple)", "phy", <<"A", "C">>),
     Q(4, "Integer", "chem", <<"1", "2">>) >>

\* A bank without any question of the subject "chem".
SparseBank ==
  << Q(1, "MCQ", "math", <<"A">>),
     Q(2, "Numeric", "math", <<"5">>),
     Q(3, "MCQ(multiple)", "phy", <<"A", "C">>),
     Q(4, "Integer", "phy", <<"1", "2">>) >>

LargeBank ==
  [i \in 1..(SampleSize + 1) |-> Q(i, "MCQ", "math", <<"A">>)]
  \o << Q(SampleSize + 2, "Integer", "phy", <<"5">>),
        Q(SampleSize + 3, "MCQ(multiple)", "chem", <<"A">>) >>

VARIABLES
  quizData,          \* the question bank
  selectedSubject,   \* NULL or a subject
  questions,         \* filteredQuestions: the sampled list
  currentQuestion,   \* 0-based index of the current question
  answers,           \* index -> answer record (array of strings)
  timePerQuestion,   \* index -> elapsed milliseconds
  startTime,         \* 0 (null) or the time the subject was chosen
  questionStartTime, \* 0 (null) or the time of the last index change
  now,               \* Date.now()
  showResults,
  isReviewMode,
  exporting,
  exportPc,          \* "idle" or "awaiting": position of exportToPDF
  picked,            \* history: index -> letters toggled an odd number of times
  text,              \* the question text handed to renderMath
  katexThrowsOn,     \* the expressions katex.renderToString throws on
  renderPc,          \* "input", "elements" (renderMath returned) or "mounted"
  elements,          \* the array of elements renderMath returned
  dom,               \* the blocks on the page once the elements are rendered
  renderFault        \* "none" or the error that ended the render

sessionVars ==
  << quizData, selectedSubject, questions, currentQuestion, answers,
     timePerQuestion, startTime, questionStartTime, now, showResults,
     isReviewMode, exporting, exportPc, picked >>

renderVars == << text, katexThrowsOn, renderPc, elements, dom, renderFault >>

vars == << sessionVars, renderVars >>

(***************************************************************************)
(* Helpers on sequences, sets and records.                                 *)
(***************************************************************************)
Range(s) == {s[i] : i \in DOMAIN s}

Min(a, b) == IF a < b THEN a ELSE b

\* Mutant of Put: the object is not spread, only the new key is kept.
PutAlone(obj, key, value) == [k \in {key} |-> value]

\* {...obj, [key]: value}
Put(obj, key, value) ==
  [k \in (DOMAIN obj) \cup {key} |-> IF k = key THEN value ELSE obj[k]]

\* obj[key] || []
GetOrEmpty(obj, key) == IF key \in DOMAIN obj THEN obj[key] ELSE <<>>

\* Array.prototype.join('')
RECURSIVE Join(_)
Join(arr) == IF arr = <<>> THEN <<>> ELSE Head(arr) \o Join(Tail(arr))

\* UTF-16 code unit order of the characters that occur in answers.
CharCode(c) ==
  CASE c = "0" -> 48 [] c = "1" -> 49 [] c = "2" -> 50 [] c = "5" -> 53
    [] c = "A" -> 65 [] c = "B" -> 66 [] c = "C" -> 67 [] c = "D" -> 68
    [] OTHER -> 127

\* a < b as JavaScript strings (lexicographic by code unit).
RECURSIVE StrLess(_, _)
StrLess(a, b) ==
  IF b = <<>> THEN FALSE
  ELSE IF a = <<>> THEN TRUE
  ELSE IF Head(a) = Head(b) THEN StrLess(Tail(a), Tail(b))
  ELSE CharCode(Head(a)) < CharCode(Head(b))

\* Insert x into the sorted array s, after the elements not greater than x.
RECURSIVE Insert(_, _)
Insert(s, x) ==
  IF s = <<>> THEN <<x>>
  ELSE IF StrLess(x, Head(s)) THEN <<x>> \o s
  ELSE <<Head(s)>> \o Insert(Tail(s), x)

\* Array.prototype.sort() with the default comparison (a stable sort).
RECURSIVE Sort(_)
Sort(s) == IF s = <<>> THEN <<>> ELSE Insert(Sort(SubSeq(s, 1, Len(s) - 1)), s[Len(s)])

Reverse(s) == [i \in 1..Len(s) |-> s[Len(s) + 1 - i]]

Rotate(s, k) == [i \in 1..Len(s) |-> s[((i - 1 + k) % Len(s)) + 1]]

\* The orders .sort(() => Math.random() - 0.5) can leave an array in: a
\* permutation of it, which one depending on the random draws.
ShuffleOutcomes(s) ==
  IF Len(s) <= MaxPermLen
  THEN { [i \in 1..Len(s) |-> s[p[i]]] :
           p \in { f \in [1..Len(s) -> 1..Len(s)] :
                     \A i, j \in 1..Len(s) : f[i] = f[j] => i = j } }
  ELSE { Rotate(s, k) : k \in 0..MaxRotate }
       \cup { Reverse(Rotate(s, k)) : k \in 0..MaxRotate }

\* Array.prototype.slice(0, n)
SliceTo(s, n) == SubSeq(s, 1, Min(n, Len(s)))

(***************************************************************************)
(* Derived values of the App component.                                    *)
(***************************************************************************)
\* quizData.questions.filter(q => q.subject === selectedSubject)
SubjectQuestions(bank, subject) ==
  LET OfSubject(q) == q.subject = subject IN SelectSeq(bank, OfSubject)

\* Mutant of FilteredQuestions: the shuffled list is not cut to SampleSize.
FilteredQuestionsUnsliced(bank, subject) ==
  IF subject = NULL THEN {<<>>}
  ELSE ShuffleOutcomes(SubjectQuestions(bank, subject))

\* The values useMemo can compute for filteredQuestions.
FilteredQuestions(bank, subject) ==
  IF subject = NULL THEN {<<>>}
  ELSE { SliceTo(s, SampleSize) : s \in ShuffleOutcomes(SubjectQuestions(bank, subject)) }

\* const currentQ = questions[currentQuestion]
currentQ == questions[currentQuestion + 1]

\* Mutant of ResultsScreen: the Results screen does not test showResults.
ResultsScreenAnyTime == ~isReviewMode

\* The screen the render shows.
ResultsScreen == showResults /\ ~isReviewMode
ReviewScreen == isReviewMode
SelectionScreen == ~ResultsScreen /\ ~ReviewScreen /\ selectedSubject = NULL
\* The quiz screen is rendered: it reads currentQ.description, so currentQ
\* has to be defined.
QuizScreen ==
  /\ ~ResultsScreen /\ ~ReviewScreen /\ selectedSubject # NULL
  /\ currentQuestion < Len(questions)

\* The render of the quiz screen throws the TypeError of reading a property
\* of undefined: currentQ is questions[currentQuestion] beyond the list.
QuizFault ==
  /\ ~ResultsScreen /\ ~ReviewScreen /\ selectedSubject # NULL
  /\ currentQuestion >= Len(questions)

\* Mutant of JudgedCorrect: a multiple-choice record is compared as a set.
JudgedCorrectAsSet(qs, ans, index) ==
  LET q == qs[index + 1]
      userAnswer == GetOrEmpty(ans, index)
  IN IF q.type = "MCQ(multiple)"
     THEN Range(userAnswer) = { <<c>> : c \in Range(q.gold) }
     ELSE (IF Len(userAnswer) = 0 THEN Undefined ELSE userAnswer[1]) = q.gold

\* Mutant of JudgedCorrect: a single answer is looked up in the expected
\* value (q.gold.includes(userAnswer[0])) instead of compared with it.
JudgedCorrectByIncludes(qs, ans, index) ==
  LET q == qs[index + 1]
      userAnswer == GetOrEmpty(ans, index)
  IN IF q.type = "MCQ(multiple)"
     THEN Join(userAnswer) = q.gold
     ELSE /\ Len(userAnswer) > 0
          /\ \E i \in 1..(Len(q.gold) + 1) :
               /\ i + Len(userAnswer[1]) - 1 <= Len(q.gold)
               /\ SubSeq(q.gold, i, i + Len(userAnswer[1]) - 1) = userAnswer[1]

\* The body of calculateScore's forEach callback: is question index judged correct.
JudgedCorrect(qs, ans, index) ==
  LET q == qs[index + 1]
      userAnswer == GetOrEmpty(ans, index)
  IN IF q.type = "MCQ(multiple)"
     THEN Join(userAnswer) = q.gold
     ELSE (IF Len(userAnswer) = 0 THEN Undefined ELSE userAnswer[1]) = q.gold

RECURSIVE ScoreFrom(_, _, _)
ScoreFrom(qs, ans, index) ==
  IF index >= Len(qs) THEN 0
  ELSE (IF JudgedCorrect(qs, ans, index) THEN 1 ELSE 0) + ScoreFrom(qs, ans, index + 1)

calculateScore == ScoreFrom(questions, answers, 0)

\* Mutant of ReviewRender: the records are left in descending order.
ReviewRenderDescending(ans) == [i \in DOMAIN ans |-> Reverse(Sort(ans[i]))]

\* The Review screen's render sorts every answer record in place
\* (userAnswers.sort() on answers[index]).
ReviewRender(ans) == [i \in DOMAIN ans |-> Sort(ans[i])]

\* The Review screen's isCorrect for the question at index:
\* JSON.stringify(userAnswers.sort()) === JSON.stringify(q.gold.split('').sort())
isCorrect(qs, ans, index) ==
  LET userAnswers == GetOrEmpty(ans, index)
      gold == qs[index + 1].gold
      goldLetters == [k \in 1..Len(gold) |-> <<gold[k]>>]
  IN Sort(userAnswers) = Sort(goldLetters)

\* Bound of the exploration: in a session of more than MaxPermLen questions
\* only one question is given an answer record.
WithinBudget ==
  \/ Len(questions) <= MaxPermLen
  \/ DOMAIN answers \subseteq {currentQuestion}

(***************************************************************************)
(* JavaScript string functions, on sequences of characters.                *)
(***************************************************************************)
DisplayOpen == <<"\\", "[">>
DisplayClose == <<"\\", "]">>
BeginCenter == <<"\\", "b", "e", "g", "i", "n", "{", "c", "e", "n", "t", "e", "r", "}">>
EndCenter == <<"\\", "e", "n", "d", "{", "c", "e", "n", "t", "e", "r", "}">>
BeginTabular == <<"\\", "b", "e", "g", "i", "n", "{", "t", "a", "b", "u", "l", "a", "r", "}">>
EndTabular == <<"\\", "e", "n", "d", "{", "t", "a", "b", "u", "l", "a", "r", "}">>
RowSep == <<"\\", "\\">>
HLine == <<"\\", "h", "l", "i", "n", "e">>
Newline == "\n"

\* The characters String.prototype.trim and \s take for white space.
IsSpace(c) == c \in {" ", Newline}

\* Does pattern occur in s at position i (1-based).
OccursAt(s, pattern, i) ==
  /\ i >= 1
  /\ i + Len(pattern) - 1 <= Len(s)
  /\ SubSeq(s, i, i + Len(pattern) - 1) = pattern

\* The first position >= from where pattern occurs in s, or 0.
RECURSIVE IndexFrom(_, _, _)
IndexFrom(s, pattern, from) ==
  IF from + Len(pattern) - 1 > Len(s) THEN 0
  ELSE IF OccursAt(s, pattern, from) THEN from
  ELSE IndexFrom(s, pattern, from + 1)

\* String.prototype.includes
Includes(s, pattern) == IndexFrom(s, pattern, 1) # 0

\* String.prototype.startsWith and endsWith
StartsWith(s, pattern) == OccursAt(s, pattern, 1)
EndsWith(s, pattern) == OccursAt(s, pattern, Len(s) - Len(pattern) + 1)

\* String.prototype.slice(from, -fromEnd) with from >= 0 (0-based) and fromEnd > 0
SliceBetween(s, from, fromEnd) == SubSeq(s, from + 1, Len(s) - fromEnd)

\* String.prototype.trim
RECURSIVE TrimStart(_)
TrimStart(s) ==
  IF s # <<>> /\ IsSpace(Head(s)) THEN TrimStart(Tail(s)) ELSE s

RECURSIVE TrimEnd(_)
TrimEnd(s) ==
  IF s # <<>> /\ IsSpace(s[Len(s)]) THEN TrimEnd(SubSeq(s, 1, Len(s) - 1)) ELSE s

Trim(s) == TrimEnd(TrimStart(s))

\* String.prototype.split(separator) with a non-empty string separator
RECURSIVE Split(_, _)
Split(s, separator) ==
  LET i == IndexFrom(s, separator, 1)
  IN IF i = 0 THEN <<s>>
     ELSE <<SubSeq(s, 1, i - 1)>> \o Split(SubSeq(s, i + Len(separator), Len(s)), separator)

\* The end (last position) of the run of newlines that starts at position i.
RECURSIVE NewlineRunEnd(_, _)
NewlineRunEnd(s, i) ==
  IF i < Len(s) /\ s[i + 1] = Newline THEN NewlineRunEnd(s, i + 1) ELSE i

\* String.prototype.split(/\n+/)
RECURSIVE SplitNewlines(_)
SplitNewlines(s) ==
  LET i == IndexFrom(s, <<Newline>>, 1)
  IN IF i = 0 THEN <<s>>
     ELSE <<SubSeq(s, 1, i - 1)>>
            \o SplitNewlines(SubSeq(s, NewlineRunEnd(s, i) + 1, Len(s)))

\* The leftmost match of open[\s\S]*?close in s: <<start, end of the match>>,
\* or <<0, 0>>.  The lazy quantifier stops at the first close after the open.
LazyMatch(s, open, close) ==
  LET i == IndexFrom(s, open, 1)
      j == IF i = 0 THEN 0 ELSE IndexFrom(s, close, i + Len(open))
  IN IF i = 0 \/ j = 0 THEN <<0, 0>> ELSE <<i, j + Len(close) - 1>>

\* String.prototype.split(/(\\\[[\s\S]*?\\\])/): the pieces between the matches
\* and, with the capturing group, the matches themselves, in order.
RECURSIVE SplitDisplay(_)
SplitDisplay(s) ==
  LET m == LazyMatch(s, DisplayOpen, DisplayClose)
  IN IF m[1] = 0 THEN <<s>>
     ELSE << SubSeq(s, 1, m[1] - 1), SubSeq(s, m[1], m[2]) >>
            \o SplitDisplay(SubSeq(s, m[2] + 1, Len(s)))

\* part.match(/\\begin{tabular}([\s\S]*?)\\end{tabular}/)?.[1]
MatchTabular(part) ==
  LET m == LazyMatch(part, BeginTabular, EndTabular)
  IN IF m[1] = 0 THEN Undefined
     ELSE SubSeq(part, m[1] + Len(BeginTabular), m[2] - Len(EndTabular))

\* The truthiness of a string or undefined.
Truthy(value) == value # Undefined /\ value # <<>>

(***************************************************************************)
(* The rendering functions.                                                *)
(***************************************************************************)
\* Does katex.renderToString throw on this expression.
KatexThrows(expression) == expression \in katexThrowsOn

\* Mutant of renderMathInline: empty fragments are left out before the
\* fragments are told apart by their index.
renderMathInlineNoEmpty(t) ==
  LET NotEmpty(part) == part # <<>>
      parts == SelectSeq(Split(t, <<"$">>), NotEmpty)
  IN [ i \in 1..Len(parts) |->
         IF (i - 1) % 2 = 1
         THEN IF KatexThrows(parts[i])
              THEN [kind |-> "Span", text |-> parts[i]]
              ELSE [kind |-> "Math", expression |-> parts[i]]
         ELSE [kind |-> "Text", text |-> parts[i]] ]

\* renderMathInline(text): the fragments of text between '$' characters.
renderMathInline(t) ==
  LET parts == Split(t, <<"$">>)
  IN [ i \in 1..Len(parts) |->
         IF (i - 1) % 2 = 1
         THEN IF KatexThrows(parts[i])
              THEN [kind |-> "Span", text |-> parts[i]]
              ELSE [kind |-> "Math", expression |-> parts[i]]
         ELSE [kind |-> "Text", text |-> parts[i]] ]

\* The cells of a table row: row.split("&") with every cell trimmed and rendered.
RowCells(row) ==
  LET cells == Split(row, <<"&">>)
  IN [ i \in 1..Len(cells) |-> renderMathInline(Trim(cells[i])) ]

\* Mutant of TableRows: every row that holds \hline is dropped.
TableRowsWithoutRules(content) ==
  LET pieces == Split(content, RowSep)
      trimmed == [ i \in 1..Len(pieces) |-> Trim(pieces[i]) ]
      Survives(row) == ~Includes(row, HLine) /\ row # <<>>
  IN SelectSeq(trimmed, Survives)

\* The surviving rows of Table's content.
TableRows(content) ==
  LET pieces == Split(content, RowSep)
      trimmed == [ i \in 1..Len(pieces) |-> Trim(pieces[i]) ]
      Survives(row) == row # HLine /\ row # <<>>
  IN SelectSeq(trimmed, Survives)

\* The Table component: rows[0] is undefined when no row survives, and
\* rows[0].split throws a TypeError.
Table(content) ==
  LET rows == TableRows(content)
  IN IF Len(rows) = 0 THEN [kind |-> "TypeError"]
     ELSE [ kind |-> "Table",
            headers |-> RowCells(rows[1]),
            bodyRows |-> [ i \in 1..(Len(rows) - 1) |-> RowCells(rows[i + 1]) ] ]

NullElement == [kind |-> "Null"]

Paragraph(t) == [kind |-> "Paragraph", text |-> t, inline |-> renderMathInline(t)]

\* Mutant of DisplayBlock: the fallback shows the region with its markers.
DisplayBlockWholePart(part) ==
  LET mathContent == SliceBetween(part, 2, 2)
  IN IF KatexThrows(Trim(mathContent))
     THEN [kind |-> "RawDisplay", text |-> part]
     ELSE [kind |-> "DisplayMath", expression |-> Trim(mathContent)]

\* renderMath, display-math branch, one captured region.
DisplayBlock(part) ==
  LET mathContent == SliceBetween(part, 2, 2)
  IN IF KatexThrows(Trim(mathContent))
     THEN [kind |-> "RawDisplay", text |-> mathContent]
     ELSE [kind |-> "DisplayMath", expression |-> Trim(mathContent)]

\* renderMath, display-math branch, the text before and after a region.
OutsideDisplay(part) ==
  LET textParts == SplitNewlines(part)
  IN [ i \in 1..Len(textParts) |->
         IF Trim(textParts[i]) = <<>> THEN NullElement ELSE Paragraph(textParts[i]) ]

RECURSIVE DisplayParts(_)
DisplayParts(parts) ==
  IF parts = <<>> THEN <<>>
  ELSE (IF StartsWith(Head(parts), DisplayOpen) /\ EndsWith(Head(parts), DisplayClose)
        THEN <<DisplayBlock(Head(parts))>>
        ELSE OutsideDisplay(Head(parts)))
       \o DisplayParts(Tail(parts))

\* Mutant of SegmentElement: a matched but empty tabular content still gives
\* a Table (tableContent !== undefined instead of its truthiness).
SegmentElementEmptyTable(part) ==
  IF Includes(part, BeginCenter) /\ Includes(part, BeginTabular)
  THEN LET tableContent == MatchTabular(part)
       IN IF tableContent # Undefined
          THEN [kind |-> "TableElement", content |-> tableContent]
          ELSE [kind |-> "RawText", text |-> part]
  ELSE IF Trim(part) = BeginCenter \/ Trim(part) = EndCenter
  THEN NullElement
  ELSE Paragraph(part)

\* renderMath, other cases, one newline-delimited segment.
SegmentElement(part) ==
  IF Includes(part, BeginCenter) /\ Includes(part, BeginTabular)
  THEN LET tableContent == MatchTabular(part)
       IN IF Truthy(tableContent)
          THEN [kind |-> "TableElement", content |-> tableContent]
          ELSE [kind |-> "RawText", text |-> part]
  ELSE IF Trim(part) = BeginCenter \/ Trim(part) = EndCenter
  THEN NullElement
  ELSE Paragraph(part)

\* Mutant of OtherCases: blank segments give no element, as in the
\* display-math branch.
OtherCasesDropBlank(t) ==
  LET parts == SplitNewlines(t)
  IN [ i \in 1..Len(parts) |->
         IF Trim(parts[i]) = <<>> THEN NullElement ELSE SegmentElement(parts[i]) ]

\* renderMath, other cases.
OtherCases(t) ==
  LET parts == SplitNewlines(t)
  IN [ i \in 1..Len(parts) |-> SegmentElement(parts[i]) ]

\* The test of renderMath's first branch.
HasDisplayMath(t) == Includes(t, DisplayOpen) /\ Includes(t, DisplayClose)

\* renderMath(text): the elements it returns, null entries included.
renderMath(t) ==
  IF HasDisplayMath(t) THEN DisplayParts(SplitDisplay(t)) ELSE OtherCases(t)

\* What the page shows for the elements: null entries show nothing and every
\* <Table> element is rendered by the Table component.
RECURSIVE Mounted(_)
Mounted(els) ==
  IF els = <<>> THEN <<>>
  ELSE (IF Head(els).kind = "Null" THEN <<>>
        ELSE IF Head(els).kind = "TableElement" THEN <<Table(Head(els).content)>>
        ELSE <<Head(els)>>)
       \o Mounted(Tail(els))

\* The pieces question texts are built from: single characters, the markers,
\* the opening of a centered table, a table cell with its closing marker and
\* the display markers in the wrong order.
Vocabulary ==
  { <<"a">>, <<" ">>, <<Newline>>, <<"$">>, DisplayOpen, DisplayClose,
    BeginCenter, EndCenter, BeginTabular, EndTabular,
    BeginCenter \o BeginTabular, <<"a">> \o EndTabular,
    DisplayClose \o DisplayOpen }

RECURSIVE TextsOf(_)
TextsOf(n) ==
  IF n = 0 THEN {<<>>}
  ELSE TextsOf(n - 1) \cup { piece \o t : piece \in Vocabulary, t \in TextsOf(n - 1) }

Texts == TextsOf(MaxPieces)

\* The pieces tabular contents are built from.
TableVocabulary == { <<"a">>, <<" ">>, <<"&">>, <<"$">>, RowSep, HLine }

RECURSIVE TableContentsOf(_)
TableContentsOf(n) ==
  IF n = 0 THEN {<<>>}
  ELSE TableContentsOf(n - 1)
         \cup { piece \o t : piece \in TableVocabulary, t \in TableContentsOf(n - 1) }

TableContents == TableContentsOf(MaxTablePieces)

\* A question text that is one centered table.
TableText(content) ==
  BeginCenter \o BeginTabular \o content \o EndTabular \o EndCenter

\* The behaviours of katex.renderToString: it throws on nothing, or on "a".
KatexBehaviours == { {}, {<<"a">>} }

\* The pieces texts with inline math are built from.
MathVocabulary == { <<"a", " ">>, <<" ", "b">>, <<"x", "^", "2">>, <<"$">> }

RECURSIVE MathTextsOf(_)
MathTextsOf(n) ==
  IF n = 0 THEN {<<>>}
  ELSE MathTextsOf(n - 1)
         \cup { piece \o t : piece \in MathVocabulary, t \in MathTextsOf(n - 1) }

MathTexts == MathTextsOf(MaxMathPieces)

\* The question texts in which a text with inline math is shown: as a
\* paragraph, as header and body cell of a table, and after the display-math
\* region \[ x^2\].
MathShapes(t) ==
  { t,
    TableText(t \o RowSep \o t),
    DisplayOpen \o <<" ", "x", "^", "2">> \o DisplayClose \o t }

\* The behaviours of katex.renderToString on these texts: it throws on
\* nothing, or on "x^2".
MathKatexBehaviours == { {}, {<<"x", "^", "2">>} }

(***************************************************************************)
(* Initial state: the App component after its first render and effects.   *)
(***************************************************************************)
InitSession(bank) ==
  /\ quizData = bank
  /\ selectedSubject = NULL
  /\ questions = <<>>
  /\ currentQuestion = 0
  /\ answers = <<>>
  /\ timePerQuestion = <<>>
  /\ startTime = 0
  /\ now = 1
  /\ questionStartTime = 1
  /\ showResults = FALSE
  /\ isReviewMode = FALSE
  /\ exporting = FALSE
  /\ exportPc = "idle"
  /\ picked = <<>>

\* No text is being rendered.
NoRender ==
  /\ text = <<>>
  /\ katexThrowsOn = {}
  /\ renderPc = "input"
  /\ elements = <<>>
  /\ dom = <<>>
  /\ renderFault = "none"

Init == InitSession(SmallBank) /\ NoRender

InitLarge == InitSession(LargeBank) /\ NoRender

InitTiny == InitSession(TinyBank) /\ NoRender

InitSparse == InitSession(SparseBank) /\ NoRender

\* A question text about to be rendered.
InitRender ==
  /\ InitSession(SmallBank)
  /\ text \in Texts
  /\ katexThrowsOn \in KatexBehaviours
  /\ renderPc = "input"
  /\ elements = <<>>
  /\ dom = <<>>
  /\ renderFault = "none"

\* A question text that is one centered table, about to be rendered.
InitTable ==
  /\ InitSession(SmallBank)
  /\ text \in { TableText(content) : content \in TableContents }
  /\ katexThrowsOn \in KatexBehaviours
  /\ renderPc = "input"
  /\ elements = <<>>
  /\ dom = <<>>
  /\ renderFault = "none"

\* A question text with inline math, about to be rendered.
InitMath ==
  /\ InitSession(SmallBank)
  /\ text \in UNION { MathShapes(t) : t \in MathTexts }
  /\ katexThrowsOn \in MathKatexBehaviours
  /\ renderPc = "input"
  /\ elements = <<>>
  /\ dom = <<>>
  /\ renderFault = "none"

(***************************************************************************)
(* Actions.                                                                *)
(***************************************************************************)
\* Time passes.
Tick ==
  /\ now < MaxTime
  /\ now' = now + 1
  /\ UNCHANGED << quizData, selectedSubject, questions, currentQuestion, answers,
                  timePerQuestion, startTime, questionStartTime, showResults,
                  isReviewMode, exporting, exportPc, picked, renderVars >>

\* A subject button of SubjectSelection: setSelectedSubject, the useMemo of
\* filteredQuestions and the startTime effect.
SelectSubject ==
  /\ SelectionScreen
  /\ \E subject \in Subjects :
       /\ selectedSubject' = subject
       /\ questions' \in FilteredQuestions(quizData, subject)
  /\ startTime' = IF startTime = 0 THEN now ELSE startTime
  /\ UNCHANGED << quizData, currentQuestion, answers, timePerQuestion,
                  questionStartTime, now, showResults, isReviewMode, exporting,
                  exportPc, picked, renderVars >>

\* handleAnswer(answer) for the current question.
handleAnswer(answer) ==
  /\ timePerQuestion' =
       IF questionStartTime # 0
       THEN Put(timePerQuestion, currentQuestion, now - questionStartTime)
       ELSE timePerQuestion
  /\ answers' = Put(answers, currentQuestion, <<answer>>)
  /\ UNCHANGED << quizData, selectedSubject, questions, currentQuestion, startTime,
                  questionStartTime, now, showResults, isReviewMode, exporting,
                  exportPc, picked, renderVars >>

\* An option button of a single-choice question.
AnswerChoice ==
  /\ QuizScreen
  /\ WithinBudget
  /\ currentQ.type = "MCQ"
  /\ \E k \in DOMAIN Options : handleAnswer(<<Options[k]>>)

\* The number input of an integer or numeric question.
AnswerNumber ==
  /\ QuizScreen
  /\ WithinBudget
  /\ currentQ.type \in {"Integer", "Numeric"}
  /\ \E value \in NumInputs : handleAnswer(value)

\* Mutant of ToggledAnswers: a selected letter is added again instead of
\* being removed.
ToggledAnswersAddOnly(currentAnswers, answer) ==
  Sort(Append(currentAnswers, answer))

\* Mutant of ToggledAnswers: the record is not sorted after an insertion.
ToggledAnswersUnsorted(currentAnswers, answer) ==
  LET Other(a) == a # answer
  IN IF answer \in Range(currentAnswers)
     THEN SelectSeq(currentAnswers, Other)
     ELSE Append(currentAnswers, answer)

\* The new record handleMultiAnswer computes.
ToggledAnswers(currentAnswers, answer) ==
  LET Other(a) == a # answer
  IN IF answer \in Range(currentAnswers)
     THEN SelectSeq(currentAnswers, Other)
     ELSE Sort(Append(currentAnswers, answer))

\* handleMultiAnswer(answer) for the current question.
handleMultiAnswer(answer) ==
  /\ answers' = Put(answers, currentQuestion,
                    ToggledAnswers(GetOrEmpty(answers, currentQuestion), answer))
  /\ picked' =
       LET old == IF currentQuestion \in DOMAIN picked THEN picked[currentQuestion] ELSE {}
       IN Put(picked, currentQuestion,
              IF answer \in old THEN old \ {answer} ELSE old \cup {answer})
  /\ UNCHANGED << quizData, selectedSubject, questions, currentQuestion,
                  timePerQuestion, startTime, questionStartTime, now, showResults,
                  isReviewMode, exporting, exportPc, renderVars >>

\* An option button of a multiple-choice question.
AnswerMulti ==
  /\ QuizScreen
  /\ WithinBudget
  /\ currentQ.type = "MCQ(multiple)"
  /\ \E k \in DOMAIN Options : handleMultiAnswer(<<Options[k]>>)

\* Mutant of HasNextQuestion: the last index is taken one too early.
HasNextQuestionOffByOne(index, length) == index < length - 2

\* handleNext's test for a further question.
HasNextQuestion(index, length) == index < length - 1

\* Mutant of HandleNext: the button is never disabled.
HandleNextAlwaysEnabled ==
  /\ QuizScreen
  /\ IF HasNextQuestion(currentQuestion, Len(questions))
     THEN /\ currentQuestion' = currentQuestion + 1
          /\ questionStartTime' = now
          /\ UNCHANGED showResults
     ELSE /\ showResults' = TRUE
          /\ UNCHANGED << currentQuestion, questionStartTime >>
  /\ UNCHANGED << quizData, selectedSubject, questions, answers, timePerQuestion,
                  startTime, now, isReviewMode, exporting, exportPc, picked, renderVars >>

\* The Next/Finish button (disabled while the current question has no record).
HandleNext ==
  /\ QuizScreen
  /\ currentQuestion \in DOMAIN answers
  /\ IF HasNextQuestion(currentQuestion, Len(questions))
     THEN /\ currentQuestion' = currentQuestion + 1
          /\ questionStartTime' = now
          /\ UNCHANGED showResults
     ELSE /\ showResults' = TRUE
          /\ UNCHANGED << currentQuestion, questionStartTime >>
  /\ UNCHANGED << quizData, selectedSubject, questions, answers, timePerQuestion,
                  startTime, now, isReviewMode, exporting, exportPc, picked, renderVars >>

\* Mutant of InRange: the upper end of the range is included.
InRangeInclusive(value, length) == ~value.isNaN /\ value.n >= 0 /\ value.n <= length

\* value >= 0 && value < questions.length (every comparison with NaN is false).
InRange(value, length) == ~value.isNaN /\ value.n >= 0 /\ value.n < length

\* setCurrentQuestion(index) and the questionStartTime effect, which runs when
\* the index has changed.
SetCurrentQuestion(index) ==
  /\ currentQuestion' = index
  /\ questionStartTime' = IF index # currentQuestion THEN now ELSE questionStartTime
  /\ UNCHANGED << quizData, selectedSubject, questions, answers, timePerQuestion,
                  startTime, now, showResults, isReviewMode, exporting, exportPc,
                  picked, renderVars >>

\* The values parseInt(e.target.value) can take: the input is free text, its
\* min and max are not enforced on typing, and "" parses to NaN.
ParsedInputs == { Num(n) : n \in (-1)..(Len(questions) + 2) } \cup {NaN}

\* parseInt(e.target.value) - 1
MinusOne(parsed) == IF parsed.isNaN THEN NaN ELSE Num(parsed.n - 1)

\* onChange of the "Go to Question" input.
GoToQuestion(parsed) ==
  /\ QuizScreen
  /\ LET value == MinusOne(parsed)
     IN IF InRange(value, Len(questions))
        THEN SetCurrentQuestion(value.n)
        ELSE UNCHANGED vars

\* handleQuestionSelect: the question <select> of the earlier App, whose
\* options are the indexes of the sampled list.
handleQuestionSelect ==
  /\ QuizScreen
  /\ \E index \in 0..(Len(questions) - 1) : SetCurrentQuestion(index)

\* The "Review Answers" button of the Results screen.
ReviewAnswers ==
  /\ ResultsScreen
  /\ isReviewMode' = TRUE
  /\ answers' = ReviewRender(answers)
  /\ UNCHANGED << quizData, selectedSubject, questions, currentQuestion,
                  timePerQuestion, startTime, questionStartTime, now, showResults,
                  exporting, exportPc, picked, renderVars >>

\* The "Back to Results" button of the Review screen.
BackToResults ==
  /\ ReviewScreen
  /\ isReviewMode' = FALSE
  /\ UNCHANGED << quizData, selectedSubject, questions, currentQuestion, answers,
                  timePerQuestion, startTime, questionStartTime, now, showResults,
                  exporting, exportPc, picked, renderVars >>

\* The "Export PDF" button (disabled while exporting): exportToPDF up to its await.
ExportStart ==
  /\ ReviewScreen
  /\ ~exporting
  /\ exporting' = TRUE
  /\ exportPc' = "awaiting"
  /\ answers' = ReviewRender(answers)
  /\ UNCHANGED << quizData, selectedSubject, questions, currentQuestion,
                  timePerQuestion, startTime, questionStartTime, now, showResults,
                  isReviewMode, picked, renderVars >>

\* Mutant of ExportEnd: the flag is not cleared after the await.
ExportEndKeepsFlag ==
  /\ exportPc = "awaiting"
  /\ exporting' = exporting
  /\ exportPc' = "idle"
  /\ answers' = IF ReviewScreen THEN ReviewRender(answers) ELSE answers
  /\ UNCHANGED << quizData, selectedSubject, questions, currentQuestion,
                  timePerQuestion, startTime, questionStartTime, now, showResults,
                  isReviewMode, picked, renderVars >>

\* exportToPDF after its await: the document was saved, or the error was caught.
ExportEnd ==
  /\ exportPc = "awaiting"
  /\ exporting' = FALSE
  /\ exportPc' = "idle"
  /\ answers' = IF ReviewScreen THEN ReviewRender(answers) ELSE answers
  /\ UNCHANGED << quizData, selectedSubject, questions, currentQuestion,
                  timePerQuestion, startTime, questionStartTime, now, showResults,
                  isReviewMode, picked, renderVars >>

Next ==
  \/ Tick
  \/ SelectSubject
  \/ AnswerChoice
  \/ AnswerNumber
  \/ AnswerMulti
  \/ HandleNext
  \/ \E parsed \in ParsedInputs : GoToQuestion(parsed)
  \/ handleQuestionSelect
  \/ ReviewAnswers
  \/ BackToResults
  \/ ExportStart
  \/ ExportEnd

Spec == Init /\ [][Next]_vars

\* The session over a small bank, with the continuation of exportToPDF after
\* its await run once the promise of html2canvas is settled.
SpecFair == InitTiny /\ [][Next]_vars /\ WF_vars(ExportEnd)

\* {renderMath(q.question)}: the call of renderMath.
CallRenderMath ==
  /\ renderPc = "input"
  /\ elements' = renderMath(text)
  /\ renderPc' = "elements"
  /\ UNCHANGED << sessionVars, text, katexThrowsOn, dom, renderFault >>

\* The elements are rendered: every Table component runs, and an error
\* thrown by one of them ends the render of the page.
MountElements ==
  /\ renderPc = "elements"
  /\ LET blocks == Mounted(elements)
     IN IF \E i \in DOMAIN blocks : blocks[i].kind = "TypeError"
        THEN dom' = <<>> /\ renderFault' = "TypeError"
        ELSE dom' = blocks /\ renderFault' = "none"
  /\ renderPc' = "mounted"
  /\ UNCHANGED << sessionVars, text, katexThrowsOn, elements >>

NextRender == CallRenderMath \/ MountElements

\* The rendering of one question text.
SpecRender == InitRender /\ [][NextRender]_vars

\* The rendering of one question text that is a table.
SpecTable == InitTable /\ [][NextRender]_vars

\* App renders again (any state change re-evaluates renderMath for the same
\* text); what the engine throws on is the environment's choice at every
\* render.  The page keeps the previous render until the new one is mounted.
Rerender ==
  /\ renderPc = "mounted"
  /\ renderPc' = "input"
  /\ katexThrowsOn' \in MathKatexBehaviours
  /\ UNCHANGED << sessionVars, text, elements, dom, renderFault >>

NextMath == CallRenderMath \/ MountElements \/ Rerender

\* The rendering, again and again, of one question text with inline math.
SpecMath == InitMath /\ [][NextMath]_vars

\* The session over a bank in which a subject has no question.
SpecSparse == InitSparse /\ [][Next]_vars

\* The session over a bank with more questions of a subject than a session holds.
SpecLarge == InitLarge /\ [][Next]_vars

(***************************************************************************)
(* Properties.                                                             *)
(***************************************************************************)
Indexes == 0..(Len(questions) - 1)

IsMultiple(index) == questions[index + 1].type = "MCQ(multiple)"

\* The record's letters, in stored order, spell the answer string.
SpellsGold(record, gold) ==
  /\ Len(record) = Len(gold)
  /\ \A k \in 1..Len(gold) : record[k] = <<gold[k]>>

\* The letters of a set in alphabetical order.
InAlphabeticalOrder(letters) ==
  LET Picked(letter) == letter \in letters
  IN SelectSeq([k \in DOMAIN Options |-> <<Options[k]>>], Picked)

\* C1: the score is the number of sampled questions judged correct, and a
\* multiple-choice question is judged correct exactly when it has a record
\* whose letters, joined in stored order, are the answer string character
\* for character; no record or an empty record is judged incorrect.
ScoreCountsLiteralMatches ==
  /\ calculateScore
       = Cardinality({ i \in Indexes : JudgedCorrect(questions, answers, i) })
  /\ \A i \in Indexes :
       IsMultiple(i) =>
         ( JudgedCorrect(questions, answers, i)
             <=> /\ i \in DOMAIN answers
                 /\ answers[i] # <<>>
                 /\ SpellsGold(answers[i], questions[i + 1].gold) )

\* Results are shown for a session in which one multiple-choice question is
\* judged correct and another, whose record holds the letters of its answer
\* in another order than the answer string, is not.
LiteralMatchScored ==
  /\ showResults
  /\ calculateScore = 1
  /\ \E i, j \in Indexes :
       /\ IsMultiple(i) /\ IsMultiple(j)
       /\ JudgedCorrect(questions, answers, i)
       /\ ~JudgedCorrect(questions, answers, j)
       /\ j \in DOMAIN answers
       /\ Range(answers[j]) = { <<c>> : c \in Range(questions[j + 1].gold) }

\* C2: a question that is not multiple-choice is judged correct exactly when
\* it has a record and the single recorded answer is the expected value.
SingleAnswerJudgedByEquality ==
  \A i \in Indexes :
    ~IsMultiple(i) =>
      ( JudgedCorrect(questions, answers, i)
          <=> /\ i \in DOMAIN answers
              /\ answers[i] = <<questions[i + 1].gold>> )

\* Results are shown for a session with a correct single answer, a wrong one
\* and a question without a record.
SingleAnswersScored ==
  /\ showResults
  /\ \E i, j, k \in Indexes :
       /\ ~IsMultiple(i) /\ ~IsMultiple(j) /\ ~IsMultiple(k)
       /\ i \in DOMAIN answers /\ JudgedCorrect(questions, answers, i)
       /\ j \in DOMAIN answers /\ ~JudgedCorrect(questions, answers, j)
       /\ k \notin DOMAIN answers /\ ~JudgedCorrect(questions, answers, k)

\* C3: the record of a multiple-choice question depends only on the set of
\* letters left selected by the toggles, not on their order: it is that set
\* in alphabetical order, and so is the scoring result.
SelectionOrderIrrelevant ==
  \A i \in Indexes :
    (IsMultiple(i) /\ i \in DOMAIN answers) =>
      /\ i \in DOMAIN picked
      /\ answers[i] = InAlphabeticalOrder(picked[i])
      /\ JudgedCorrect(questions, answers, i)
           <=> (Join(InAlphabeticalOrder(picked[i])) = questions[i + 1].gold)

\* A and C are left selected and the record is [A, C], judged correct.
TwoLettersSelected ==
  \E i \in Indexes :
    /\ IsMultiple(i)
    /\ i \in DOMAIN picked
    /\ picked[i] = {<<"A">>, <<"C">>}
    /\ answers[i] = << <<"A">>, <<"C">> >>
    /\ JudgedCorrect(questions, answers, i)

\* The number of bank questions of a subject.
CountOfSubject(subject) ==
  Cardinality({ k \in DOMAIN quizData : quizData[k].subject = subject })

\* C4: choosing a subject gives a list of min(20, N) questions of that
\* subject, none twice, and no later step changes the list or its order.
SampleFixedOnce ==
  [][ /\ (selectedSubject = NULL /\ selectedSubject' # NULL) =>
           /\ Len(questions') =
                (IF CountOfSubject(selectedSubject') < 20
                 THEN CountOfSubject(selectedSubject') ELSE 20)
           /\ \A i \in DOMAIN questions' :
                /\ questions'[i] \in Range(quizData)
                /\ questions'[i].subject = selectedSubject'
           /\ \A i, j \in DOMAIN questions' :
                questions'[i].id = questions'[j].id => i = j
      /\ selectedSubject # NULL =>
           /\ questions' = questions
           /\ selectedSubject' = selectedSubject
           /\ quizData' = quizData ]_vars

\* A session of 20 out of 21 questions that was answered, finished, reviewed
\* and exported.
FullSampleReviewed ==
  /\ CountOfSubject(selectedSubject) = 21
  /\ Len(questions) = 20
  /\ answers # <<>>
  /\ showResults
  /\ isReviewMode
  /\ exporting

\* C5: review mode implies that results have been shown; review mode is
\* entered only from the Results screen and is left only to the Results screen.
ReviewOnlyFromResults ==
  /\ [](isReviewMode => showResults)
  /\ [][ /\ (~isReviewMode /\ isReviewMode') => (showResults /\ showResults')
         /\ (isReviewMode /\ ~isReviewMode') => (showResults' /\ ~isReviewMode') ]_vars

\* The Results screen is shown again after a visit to Review, in which an
\* export was started.
BackOnResults == showResults /\ ~isReviewMode /\ exporting

\* C6: showResults becomes true only by handleNext at the last index;
\* handleNext at an earlier index adds one to the index and shows no results.
ResultsOnlyPastLastQuestion ==
  [][ /\ (~showResults /\ showResults') =>
           (HandleNext /\ currentQuestion = Len(questions) - 1)
      /\ (HandleNext /\ currentQuestion < Len(questions) - 1) =>
           (currentQuestion' = currentQuestion + 1 /\ ~showResults') ]_vars

\* Results are shown at the last index of a session of three questions.
FinishedThreeQuestions ==
  showResults /\ Len(questions) = 3 /\ currentQuestion = 2

\* C7: on the quiz screen a jump to an index of the list sets the current
\* index to it and leaves records and flags alone; a request outside the
\* list, or not a number, leaves the current index alone.
JumpSetsIndexInRange ==
  [][ /\ \A parsed \in ParsedInputs :
           GoToQuestion(parsed) =>
             IF ~parsed.isNaN /\ 0 <= parsed.n - 1 /\ parsed.n - 1 < Len(questions)
             THEN /\ currentQuestion' = parsed.n - 1
                  /\ answers' = answers
                  /\ showResults' = showResults
                  /\ isReviewMode' = isReviewMode
             ELSE currentQuestion' = currentQuestion
      /\ handleQuestionSelect =>
           /\ currentQuestion' \in Indexes
           /\ answers' = answers
           /\ showResults' = showResults
           /\ isReviewMode' = isReviewMode ]_vars

\* The first question is current again and unanswered, the second was
\* skipped and the third is answered.
JumpedForwardAndBack ==
  /\ QuizScreen
  /\ currentQuestion = 0
  /\ DOMAIN answers = {2}

\* C8: recording an answer creates or overwrites the record of the current
\* question only, and changes neither the index, the list nor the flags; no
\* step removes a record.
AnswerTouchesCurrentOnly ==
  [][ /\ DOMAIN answers \subseteq DOMAIN answers'
      /\ (AnswerChoice \/ AnswerNumber \/ AnswerMulti) =>
           /\ DOMAIN answers' = DOMAIN answers \cup {currentQuestion}
           /\ \A i \in DOMAIN answers \ {currentQuestion} : answers'[i] = answers[i]
           /\ currentQuestion' = currentQuestion
           /\ questions' = questions
           /\ showResults' = showResults
           /\ isReviewMode' = isReviewMode ]_vars

\* Three questions have a record and the record of the first is the current one.
ThreeRecords ==
  /\ QuizScreen
  /\ DOMAIN answers = {0, 1, 2}
  /\ currentQuestion = 0

\* Elements that show something: not null and not a blank paragraph.
Visible(els) ==
  LET Shows(el) ==
        /\ el.kind # "Null"
        /\ ~(el.kind = "Paragraph" /\ Trim(el.text) = <<>>)
  IN SelectSeq(els, Shows)

\* The elements C9 describes: every region one display block, every stretch
\* outside the regions segmented as a text without display math is.
RECURSIVE RegionsAndStretches(_)
RegionsAndStretches(parts) ==
  IF parts = <<>> THEN <<>>
  ELSE IF Len(parts) = 1 THEN OtherCases(parts[1])
  ELSE OtherCases(parts[1]) \o <<DisplayBlock(parts[2])>>
         \o RegionsAndStretches(SubSeq(parts, 3, Len(parts)))

HasDisplayRegion(t) == LazyMatch(t, DisplayOpen, DisplayClose)[1] # 0

\* C9: in a text with a display-math region, each region is one display
\* block and the text outside the regions is segmented by the rules of a
\* text without display math (tables, dropped center markers, paragraphs).
DisplayTextSegmentedAlike ==
  (renderPc = "elements" /\ HasDisplayRegion(text)) =>
    Visible(elements) = Visible(RegionsAndStretches(SplitDisplay(text)))

\* The newline-delimited segments that hold both markers of a table.
IsTableSegment(segment) ==
  Includes(segment, BeginCenter) /\ Includes(segment, BeginTabular)

\* The contents c with segment = pre \begin{tabular} c \end{tabular} post,
\* where that \begin{tabular} is the first of the segment and that
\* \end{tabular} the first one after it.
TabularContents(segment) ==
  LET begins == { a \in 1..Len(segment) :
                    /\ OccursAt(segment, BeginTabular, a)
                    /\ \A a2 \in 1..(a - 1) : ~OccursAt(segment, BeginTabular, a2) }
      EndsAfter(a) ==
        { b \in (a + Len(BeginTabular))..Len(segment) :
            /\ OccursAt(segment, EndTabular, b)
            /\ \A b2 \in (a + Len(BeginTabular))..(b - 1) :
                 ~OccursAt(segment, EndTabular, b2) }
  IN UNION { { SubSeq(segment, a + Len(BeginTabular), b - 1) : b \in EndsAfter(a) } :
             a \in begins }

\* C10 as stated: every table segment of a text without display math gives a
\* Table on the substring between the tabular markers, never raw text.
TableSegmentAlwaysTable ==
  (renderPc = "elements" /\ ~HasDisplayMath(text)) =>
    \A k \in DOMAIN elements :
      IsTableSegment(SplitNewlines(text)[k]) =>
        /\ elements[k].kind = "TableElement"
        /\ elements[k].content \in TabularContents(SplitNewlines(text)[k])

\* C10, amended: a table segment gives a Table on the substring between
\* \begin{tabular} and the first following \end{tabular} when there is such
\* an \end{tabular} and the substring is not empty, and otherwise the segment
\* itself as raw text; it never gives a Paragraph.
TableSegmentTableOrRaw ==
  LET segments == SplitNewlines(text)
      contents == [ k \in DOMAIN segments |->
                      IF IsTableSegment(segments[k])
                      THEN TabularContents(segments[k]) ELSE {} ]
  IN (renderPc # "input" /\ ~HasDisplayMath(text)) =>
       /\ Len(elements) = Len(segments)
       /\ \A k \in DOMAIN elements :
            IsTableSegment(segments[k]) =>
              IF contents[k] \in {{}, {<<>>}}
              THEN elements[k] = [kind |-> "RawText", text |-> segments[k]]
              ELSE /\ elements[k].kind = "TableElement"
                   /\ contents[k] = {elements[k].content}
       /\ renderPc = "mounted" =>
            /\ renderFault = "TypeError"
                 <=> \E k \in DOMAIN segments :
                       /\ IsTableSegment(segments[k])
                       /\ contents[k] \notin {{}, {<<>>}}
                       /\ \A c \in contents[k] : TableRows(c) = <<>>
            /\ renderFault = "none" =>
                 LET Tabular(k) == IsTableSegment(segments[k])
                                     /\ contents[k] \notin {{}, {<<>>}}
                     ShownTable(block) == block.kind = "Table"
                     shown == SelectSeq(dom, ShownTable)
                     tabular == { k \in DOMAIN segments : Tabular(k) }
                 IN /\ Len(shown) = Cardinality(tabular)
                    /\ \A n \in DOMAIN shown :
                         \E k \in tabular :
                           /\ Cardinality({ j \in tabular : j <= k }) = n
                           /\ \A c \in contents[k] : shown[n] = Table(c)

\* A table segment with two \end{tabular} markers was rendered as a table of
\* the content before the first of them: one header cell and no body row.
TableRendered ==
  /\ renderPc = "mounted"
  /\ text = BeginCenter \o BeginTabular \o <<"a">> \o EndTabular \o EndTabular
  /\ elements = << [kind |-> "TableElement", content |-> <<"a">>] >>
  /\ Len(dom) = 1
  /\ dom[1].kind = "Table"
  /\ Len(dom[1].headers) = 1
  /\ dom[1].bodyRows = <<>>

\* The blocks C11 describes for the segments of a text without a table
\* segment: none for a lone center marker, one Paragraph for any other.
ExpectedBlocks(segments) ==
  [ k \in DOMAIN segments |->
      IF Trim(segments[k]) \in {BeginCenter, EndCenter}
      THEN NullElement
      ELSE Paragraph(segments[k]) ]

NoTableSegment(t) ==
  \A k \in DOMAIN SplitNewlines(t) : ~IsTableSegment(SplitNewlines(t)[k])

ContentOf(t) ==
  SubSeq(t, Len(BeginCenter) + Len(BeginTabular) + 1,
         Len(t) - Len(EndTabular) - Len(EndCenter))

\* The pieces of a tabular content between row separators that are neither
\* blank nor, after trimming, exactly \hline.
SurvivingPieces(content) ==
  LET Survives(piece) == Trim(piece) # <<>> /\ Trim(piece) # HLine
  IN SelectSeq(Split(content, RowSep), Survives)

\* The number of '&' characters of a row.
Ampersands(row) == Cardinality({ i \in DOMAIN row : row[i] = "&" })

\* C12: for a tabular content with a surviving row the table is rendered
\* without failure; its header is the first surviving row and its body rows
\* are the others in order; a row with k '&' has k + 1 cells, the trimmed
\* pieces between them, whatever the number of cells of the header.
TableRowsAndCells ==
  LET survivors == SurvivingPieces(ContentOf(text))
  IN (renderPc = "mounted" /\ survivors # <<>>) =>
       /\ renderFault = "none"
       /\ Len(dom) = 1
       /\ dom[1].kind = "Table"
       /\ LET rows == <<dom[1].headers>> \o dom[1].bodyRows
          IN /\ Len(rows) = Len(survivors)
             /\ \A n \in DOMAIN rows :
                  LET cells == Split(survivors[n], <<"&">>)
                  IN /\ Len(rows[n]) = Ampersands(survivors[n]) + 1
                     /\ \A j \in DOMAIN rows[n] :
                          rows[n][j] = renderMathInline(Trim(cells[j]))

\* The content \hline, separator, "&", separator, "a" was rendered: the
\* \hline row is dropped, the header has two cells and the body row one.
RaggedTableRendered ==
  /\ renderPc = "mounted"
  /\ ContentOf(text) = HLine \o RowSep \o <<"&">> \o RowSep \o <<"a">>
  /\ renderFault = "none"
  /\ Len(dom[1].headers) = 2
  /\ Len(dom[1].bodyRows) = 1
  /\ Len(dom[1].bodyRows[1]) = 1

\* C13: when the Table component is given a content without a surviving
\* row, the render fails, and with an explicit empty-table condition, not
\* with the TypeError of reading the missing header row.
EmptyTableFailsExplicitly ==
  ( /\ renderPc = "mounted"
    /\ elements = << [kind |-> "TableElement", content |-> ContentOf(text)] >>
    /\ SurvivingPieces(ContentOf(text)) = <<>> ) =>
      /\ renderFault # "none"
      /\ renderFault # "TypeError"

\* The text of a fragment: the expression handed to the engine, or the
\* literal text.
FragmentText(fragment) ==
  IF fragment.kind = "Math" THEN fragment.expression ELSE fragment.text

\* The fragments' texts with a '$' between every two of them.
RECURSIVE JoinedByDollar(_)
JoinedByDollar(fragments) ==
  IF fragments = <<>> THEN <<>>
  ELSE IF Len(fragments) = 1 THEN FragmentText(fragments[1])
  ELSE FragmentText(fragments[1]) \o <<"$">> \o JoinedByDollar(Tail(fragments))

Dollars(t) == Cardinality({ i \in DOMAIN t : t[i] = "$" })

\* What C14 says of the fragments of one text.
InlineResolved(original, fragments) ==
  /\ Len(fragments) = Dollars(original) + 1
  /\ \A i \in DOMAIN fragments :
       IF (i - 1) % 2 = 1
       THEN fragments[i].kind \in {"Math", "Span"}
       ELSE fragments[i].kind = "Text"
  /\ JoinedByDollar(fragments) = original

\* C14: the fragments of every paragraph and of every header and body cell
\* are the pieces of its text between '$' characters, in order: those with
\* an odd index (from 0) went to the engine, the others are literal text,
\* and joined with '$' they give the text back.
InlineMathBySplitting ==
  /\ \A k \in DOMAIN elements :
       elements[k].kind = "Paragraph" =>
         InlineResolved(elements[k].text, elements[k].inline)
  /\ ( /\ Len(elements) = 1
       /\ elements[1].kind = "TableElement"
       /\ Len(dom) = 1 ) =>
         LET survivors == SurvivingPieces(elements[1].content)
             rows == <<dom[1].headers>> \o dom[1].bodyRows
         IN \A n \in DOMAIN rows : \A j \in DOMAIN rows[n] :
              InlineResolved(Trim(Split(survivors[n], <<"&">>)[j]), rows[n][j])

\* "a $x^2$ b" was rendered as a paragraph: literal "a ", math "x^2",
\* literal " b".
InlineExampleRendered ==
  /\ renderPc = "mounted"
  /\ text = <<"a", " ", "$", "x", "^", "2", "$", " ", "b">>
  /\ katexThrowsOn = {}
  /\ Len(dom) = 1
  /\ dom[1].inline = << [kind |-> "Text", text |-> <<"a", " ">>],
                        [kind |-> "Math", expression |-> <<"x", "^", "2">>],
                        [kind |-> "Text", text |-> <<" ", "b">>] >>

\* The fragments as they are when the engine does not fail: a fragment shown
\* as raw text is the expression handed to the engine.
HealedInline(fragments) ==
  [ i \in DOMAIN fragments |->
      IF fragments[i].kind = "Span"
      THEN [kind |-> "Math", expression |-> fragments[i].text]
      ELSE fragments[i] ]

\* A block as it is when the engine does not fail.
HealedBlock(block) ==
  CASE block.kind = "Paragraph" ->
         [block EXCEPT !.inline = HealedInline(@)]
    [] block.kind = "Table" ->
         [ kind |-> "Table",
           headers |-> [ j \in DOMAIN block.headers |-> HealedInline(block.headers[j]) ],
           bodyRows |-> [ n \in DOMAIN block.bodyRows |->
                           [ j \in DOMAIN block.bodyRows[n] |->
                               HealedInline(block.bodyRows[n][j]) ] ] ]
    [] block.kind = "RawDisplay" ->
         [kind |-> "DisplayMath", expression |-> Trim(block.text)]
    [] OTHER -> block

Healed(blocks) == [ k \in DOMAIN blocks |-> HealedBlock(blocks[k]) ]

\* The expressions shown as raw text (raw = TRUE) or typeset (raw = FALSE).
Shown(blocks, raw) ==
  LET inlineKind == IF raw THEN "Span" ELSE "Math"
      InlineShown(fragments) ==
        { FragmentText(fragments[i]) :
            i \in { i \in DOMAIN fragments : fragments[i].kind = inlineKind } }
      BlockShown(block) ==
        CASE block.kind = "Paragraph" -> InlineShown(block.inline)
          [] block.kind = "Table" ->
               LET rows == <<block.headers>> \o block.bodyRows
               IN UNION { UNION { InlineShown(rows[n][j]) : j \in DOMAIN rows[n] } :
                          n \in DOMAIN rows }
          [] block.kind = "RawDisplay" -> IF raw THEN {Trim(block.text)} ELSE {}
          [] block.kind = "DisplayMath" -> IF raw THEN {} ELSE {block.expression}
          [] OTHER -> {}
  IN UNION { BlockShown(blocks[k]) : k \in DOMAIN blocks }

\* C15: an expression is shown as raw text exactly when the engine fails on
\* it; and when the text is rendered again by an engine that does not fail,
\* the elements and the page are those of the previous render with every
\* raw expression typeset, and the render fails only if the previous did.
FailureShowsRawTextOnly ==
  /\ renderPc # "input" =>
       /\ \A expression \in Shown(elements, TRUE) : KatexThrows(expression)
       /\ \A expression \in Shown(elements, FALSE) : ~KatexThrows(expression)
  /\ renderPc = "mounted" =>
       /\ \A expression \in Shown(dom, TRUE) : KatexThrows(expression)
       /\ \A expression \in Shown(dom, FALSE) : ~KatexThrows(expression)
  /\ (renderPc = "input" /\ elements # <<>> /\ katexThrowsOn = {}) =>
       /\ renderMath(text) = Healed(elements)
       /\ LET blocks == Mounted(renderMath(text))
          IN IF \E k \in DOMAIN blocks : blocks[k].kind = "TypeError"
             THEN renderFault = "TypeError" /\ dom = <<>>
             ELSE renderFault = "none" /\ Healed(dom) = blocks

\* The engine failed on the display region \[ x^2\] and on the inline
\* expression of "a $x^2$ b": the page shows " x^2", then "a ", "x^2", " b",
\* and is about to be rendered again by an engine that does not fail.
BothFailuresShown ==
  /\ renderPc = "input"
  /\ katexThrowsOn = {}
  /\ renderFault = "none"
  /\ dom = << [kind |-> "RawDisplay", text |-> <<" ", "x", "^", "2">>],
              [ kind |-> "Paragraph",
                text |-> <<"a", " ", "$", "x", "^", "2", "$", " ", "b">>,
                inline |-> << [kind |-> "Text", text |-> <<"a", " ">>],
                              [kind |-> "Span", text |-> <<"x", "^", "2">>],
                              [kind |-> "Text", text |-> <<" ", "b">>] >> ] >>

\* C16: an export that has started ends, and exporting is false when it has
\* ended; exporting is true exactly while an export is in flight; until its
\* own end no step, Back to Results and Review Answers included, ends the
\* export or clears the flag.
ExportRunsToItsEnd ==
  /\ (exportPc = "awaiting") ~> (exportPc = "idle" /\ ~exporting)
  /\ [](exporting <=> exportPc = "awaiting")
  /\ [][ /\ (exportPc = "awaiting" /\ exportPc' = "idle") => (ExportEnd /\ ~exporting')
         /\ (exportPc = "awaiting" /\ (BackToResults \/ ReviewAnswers)) =>
              (exportPc' = "awaiting" /\ exporting') ]_vars

\* An export is in flight while the Results screen is shown.
ExportInFlightOnResults ==
  /\ exportPc = "awaiting"
  /\ exporting
  /\ ResultsScreen
  /\ DOMAIN answers # {}

\* C17: whenever results are shown, the Review screen marks a question
\* correct exactly when calculateScore counts it, so the number of questions
\* marked correct is the score.
ReviewAgreesWithScore ==
  showResults =>
    /\ \A i \in Indexes :
         isCorrect(questions, answers, i) <=> JudgedCorrect(questions, answers, i)
    /\ Cardinality({ i \in Indexes : isCorrect(questions, answers, i) })
         = calculateScore

\* C18: the record of a multiple-choice question is a strictly ascending
\* sequence of letters of A..D, hence of 0 to 4 distinct letters, and the
\* record of any other question has exactly one element.
RecordsWellFormed ==
  \A i \in DOMAIN answers :
    IF IsMultiple(i)
    THEN /\ \A k \in DOMAIN answers[i] :
              \E o \in DOMAIN Options : answers[i][k] = <<Options[o]>>
         /\ \A k \in 1..(Len(answers[i]) - 1) :
              StrLess(answers[i][k], answers[i][k + 1])
         /\ Len(answers[i]) <= 4
    ELSE Len(answers[i]) = 1

\* A single-choice record beside a multiple-choice record of all four letters.
AllFourLettersSelected ==
  \E i, j \in DOMAIN answers :
    /\ ~IsMultiple(i)
    /\ IsMultiple(j)
    /\ answers[j] = << <<"A">>, <<"B">>, <<"C">>, <<"D">> >>

\* C19: every question with an answer record has an entry in
\* timePerQuestion, whatever its kind.
EveryRecordIsTimed ==
  \A i \in DOMAIN answers : i \in DOMAIN timePerQuestion

\* C20: a step of Next/Finish is taken only from a state in which the
\* current question has a record, an empty one included; results come to be
\* shown only from such a state, and while they are shown the question at
\* the last index has a record.
NextNeedsRecord ==
  /\ [][ /\ HandleNext => currentQuestion \in DOMAIN answers
         /\ (~showResults /\ showResults') =>
              /\ currentQuestion \in DOMAIN answers
              /\ currentQuestion = Len(questions) - 1 ]_vars
  /\ [](showResults => (Len(questions) - 1) \in DOMAIN answers)

\* Results are shown after a jump to the last question, whose record was
\* left empty by deselecting its only letter; the first question has none.
FinishedOnEmptyRecord ==
  /\ showResults
  /\ Len(questions) = 2
  /\ DOMAIN answers = {1}
  /\ answers[1] = <<>>

\* C21: while a subject is chosen and results are not shown, the current
\* index is an index of the sampled list, whatever the bank and the subject.
CurrentQuestionExists ==
  (selectedSubject # NULL /\ ~showResults) =>
    (0 <= currentQuestion /\ currentQuestion < Len(questions))

\* C22: once results are shown they stay shown, and no step changes the
\* answer records, the elapsed-time entries, the current index, the sampled
\* list or the subject (hence the score); of the state of the session only
\* the review-mode flag and the exporting flag still change.
ResultsAreFinal ==
  [][ showResults =>
        /\ showResults'
        /\ answers' = answers
        /\ timePerQuestion' = timePerQuestion
        /\ currentQuestion' = currentQuestion
        /\ questions' = questions
        /\ selectedSubject' = selectedSubject
        /\ quizData' = quizData
        /\ startTime' = startTime
        /\ questionStartTime' = questionStartTime ]_vars

\* The Review screen is shown, no export is in flight, and a record of two
\* letters was sorted again by its render.
ReviewShownWithTwoLetters ==
  /\ showResults
  /\ isReviewMode
  /\ exportPc = "idle"
  /\ \E i \in DOMAIN answers : IsMultiple(i) /\ Len(answers[i]) = 2

\* The time at which the current question became the current one: the last
\* change of the index, which is when questionStartTime was last set, or,
\* for a question that is current since the subject was chosen, the time of
\* that choice (startTime).
BecameCurrentAt ==
  IF questionStartTime >= startTime THEN questionStartTime ELSE startTime

\* C23: when handleAnswer records an answer, the entry stored for the
\* current question is the time passed since it became the current question
\* (for the first question: since the subject was chosen); it replaces an
\* earlier entry and leaves the entries of other questions alone.
ElapsedSinceBecameCurrent ==
  [][ (AnswerChoice \/ AnswerNumber) =>
        /\ DOMAIN timePerQuestion' = DOMAIN timePerQuestion \cup {currentQuestion}
        /\ timePerQuestion'[currentQuestion] = now - BecameCurrentAt
        /\ \A i \in DOMAIN timePerQuestion \ {currentQuestion} :
             timePerQuestion'[i] = timePerQuestion[i] ]_vars

====
